---- MODULE Spec2Model ----
(***************************************************************************)
(* Model of the `fetch` command-line HTTP client (src/main.rs).            *)
(*                                                                         *)
(* One run of main() is a state machine: argument parsing, input           *)
(* resolution (request file or flags), the header loop, method dispatch,   *)
(* request build, the network call, the body read and the rendering.       *)
(* Strings are sequences of one-character strings, so that splitting,      *)
(* trimming and case conversion are computed and not assumed.              *)
(* Option<T> is a sequence of length at most one: None is << >>.           *)
(***************************************************************************)
EXTENDS Integers, Sequences, FiniteSets, TLC

(* ------------------------------ bounds --------------------------------- *)
\* longest header list taken from the pool of header strings
MaxHeaders == 2
\* longest header string enumerated over the whole header alphabet
MaxHeaderLen == 3

(* --------------------------- Option<T> --------------------------------- *)
None == << >>
Some(x) == << x >>
IsSome(o) == Len(o) = 1
UnwrapOrDefault(o, d) == IF IsSome(o) THEN o[1] ELSE d

(* ----------------------------- strings --------------------------------- *)
LowerLetters == << "a", "c", "d", "e", "g", "h", "l", "o", "p", "s", "t", "u" >>
UpperLetters == << "A", "C", "D", "E", "G", "H", "L", "O", "P", "S", "T", "U" >>
LetterIdx == 1..12

\* char::to_uppercase on the model's alphabet
UpperChar(c) ==
    IF \E i \in LetterIdx : LowerLetters[i] = c
    THEN UpperLetters[CHOOSE i \in LetterIdx : LowerLetters[i] = c]
    ELSE c

\* the ASCII lower-casing HeaderName::from_str applies to a header name
LowerChar(c) ==
    IF \E i \in LetterIdx : UpperLetters[i] = c
    THEN LowerLetters[CHOOSE i \in LetterIdx : UpperLetters[i] = c]
    ELSE c

RECURSIVE ToUppercaseFrom(_, _)
ToUppercaseFrom(s, i) ==
    IF i > Len(s) THEN << >>
    ELSE << UpperChar(s[i]) >> \o ToUppercaseFrom(s, i + 1)

\* a buggy upper-casing that leaves the first character alone
ToUppercaseKeepFirst(s) ==
    IF s = << >> THEN << >> ELSE << s[1] >> \o ToUppercaseFrom(s, 2)

\* str::to_uppercase
ToUppercase(s) == ToUppercaseFrom(s, 1)

RECURSIVE ToLowercase(_)
ToLowercase(s) ==
    IF s = << >> THEN << >>
    ELSE << LowerChar(s[1]) >> \o ToLowercase(Tail(s))

\* the characters str::trim removes
IsWhitespace(c) == c = " "

RECURSIVE TrimStart(_)
TrimStart(s) ==
    IF s # << >> /\ IsWhitespace(s[1]) THEN TrimStart(Tail(s)) ELSE s

RECURSIVE TrimEnd(_)
TrimEnd(s) ==
    IF s # << >> /\ IsWhitespace(s[Len(s)])
    THEN TrimEnd(SubSeq(s, 1, Len(s) - 1))
    ELSE s

\* str::trim
Trim(s) == TrimEnd(TrimStart(s))

\* position of the first occurrence of c in s at or after i, 0 when absent
RECURSIVE Find(_, _, _)
Find(s, c, i) ==
    IF i > Len(s) THEN 0
    ELSE IF s[i] = c THEN i
    ELSE Find(s, c, i + 1)

\* position of the last occurrence of c in s at or before i, 0 when absent
RECURSIVE RFind(_, _, _)
RFind(s, c, i) ==
    IF i < 1 THEN 0
    ELSE IF s[i] = c THEN i
    ELSE RFind(s, c, i - 1)

\* a buggy split at the LAST colon (str::rsplit_once)
RSplitOnce(h) ==
    LET p == RFind(h, ":", Len(h))
    IN  IF p = 0 THEN None
        ELSE Some(<< SubSeq(h, 1, p - 1), SubSeq(h, p + 1, Len(h)) >>)

\* h.split_once(":"): None without a colon, else the parts around the first
SplitOnce(h) ==
    LET p == Find(h, ":", 1)
    IN  IF p = 0 THEN None
        ELSE Some(<< SubSeq(h, 1, p - 1), SubSeq(h, p + 1, Len(h)) >>)

(* ------------------------ HTTP header types ---------------------------- *)
\* the byte 0x7F, a control character that is no whitespace
DelChar == "DEL"

IsTokenChar(c) == c \notin {":", " ", DelChar}

\* HeaderName::from_str: Err on an empty name or a non-token character,
\* else the name in lower case
HeaderNameFromStr(s) ==
    IF s = << >> \/ \E i \in 1..Len(s) : ~IsTokenChar(s[i])
    THEN None
    ELSE Some(ToLowercase(s))

\* HeaderValue::from_str: Err on a control character, else the bytes
HeaderValueFromStr(s) ==
    IF \E i \in 1..Len(s) : s[i] = DelChar THEN None ELSE Some(s)

\* a buggy insert that keeps the first value of a name
HeaderMapInsertKeepFirst(m, k, v) ==
    IF \E p \in m : p[1] = k THEN m ELSE m \cup {<< k, v >>}

\* HeaderMap::insert: the new value replaces every value of that name
HeaderMapInsert(m, k, v) ==
    {p \in m : p[1] # k} \cup {<< k, v >>}

(* ------------------------------ JSON ----------------------------------- *)
\* serde_json::Value, as tagged tuples
JNull == << "null" >>
JNum(digits) == << "num", digits >>
JStr(chars) == << "str", chars >>
JObj(key, val) == << "obj", key, val >>

Quote == "\""

\* the JSON values the model draws request and response bodies from
JsonPool ==
    { JNum(<< "1" >>), JStr(<< "a" >>), JObj(<< "a" >>, JNum(<< "1" >>)) }

\* Value::to_string: the compact serialization
RECURSIVE Serialize(_)
Serialize(v) ==
    CASE v[1] = "null" -> << "n", "u", "l", "l" >>
      [] v[1] = "num" -> v[2]
      [] v[1] = "str" -> << Quote >> \o v[2] \o << Quote >>
      [] v[1] = "obj" ->
            << "{", Quote >> \o v[2] \o << Quote, ":" >> \o Serialize(v[3])
                \o << "}" >>

\* serde_json::to_string_pretty: two-space indentation, one member per line
PrettySerialize(v) ==
    IF v[1] = "obj"
    THEN << "{", "\n", " ", " ", Quote >> \o v[2] \o << Quote, ":", " " >>
            \o Serialize(v[3]) \o << "\n", "}" >>
    ELSE Serialize(v)

\* serde_json::from_str::<Value>: Some(value) when the text is JSON
ParseJson(text) ==
    LET hits == {v \in JsonPool \cup {JNull} :
                    text \in {Serialize(v), PrettySerialize(v)}}
    IN  IF hits = {} THEN None ELSE Some(CHOOSE v \in hits : TRUE)

(* ------------------------------ inputs --------------------------------- *)
RECURSIVE SeqsUpTo(_, _)
\* the sequences over S of length at most n
SeqsUpTo(S, n) ==
    IF n = 0 THEN {<< >>}
    ELSE LET R == SeqsUpTo(S, n - 1)
         IN  R \cup {<< x >> \o r : x \in S, r \in {t \in R : Len(t) = n - 1}}

RECURSIVE Casings(_)
\* every mixed-case spelling of the lower-case word w
Casings(w) ==
    IF w = << >> THEN {<< >>}
    ELSE {<< c >> \o r : c \in {w[1], UpperChar(w[1])}, r \in Casings(Tail(w))}

HeaderChars == {"a", "A", ":", " ", DelChar}

\* header strings used in lists: valid, the same name in another case, the
\* same name with another value, no colon, empty name, control character in
\* the value, several colons and spaces
HeaderPool ==
    { << "a", ":", "a" >>,
      << "A", ":", "A" >>,
      << "a", ":", "A" >>,
      << "a", "a" >>,
      << ":", "a" >>,
      << "a", ":", DelChar >>,
      << " ", "a", " ", ":", " ", "a", ":", "a", " " >> }

\* #[arg(long, default_value = "GET")]
DefaultMethod == << "G", "E", "T" >>

MethodPool ==
    { DefaultMethod, << "p", "o", "s", "t" >>, << "P", "u", "t" >>,
      << "p", "a", "t", "c", "h" >> }

AllMethods ==
    Casings(<< "g", "e", "t" >>) \cup Casings(<< "p", "o", "s", "t" >>)
        \cup Casings(<< "p", "u", "t" >>)
        \cup Casings(<< "d", "e", "l", "e", "t", "e" >>)
        \cup { << "p", "a", "t", "c", "h" >>, << "P", "A", "T", "C", "H" >>,
               << "h", "e", "a", "d" >>, << >> }

GoodUrl == "http://example.com/"
BadUrl == "not a url"

\* Url::parse inside client.get/post/put/delete; build() reports its error
UrlParses(u) == u = GoodUrl

FilePath == "req.json"

\* the file system at FilePath: unreadable, not a RequestFile document, or a
\* JSON object with the fields present in it
NoFile ==
    [kind |-> "unreadable", url |-> None, method |-> None, body |-> None,
     headers |-> None]

BadJsonFile == [NoFile EXCEPT !.kind = "malformed"]

ObjectFile(u, m, b, h) ==
    [kind |-> "object", url |-> u, method |-> m, body |-> b, headers |-> h]

BodyStrings == {None, Some(<< "x" >>)}

HeaderLists == SeqsUpTo(HeaderPool, MaxHeaders)

SingleHeaders == {<< h >> : h \in SeqsUpTo(HeaderChars, MaxHeaderLen)}

FlagCli(u, m, b, h) ==
    [file |-> None, host |-> Some(u), method |-> m, body |-> b, header |-> h]

\* the flags that may accompany --file
FileCli(m, b, h) ==
    [file |-> Some(FilePath), host |-> None, method |-> m, body |-> b,
     header |-> h]

FileCliPool ==
    { FileCli(DefaultMethod, None, << >>),
      FileCli(<< "p", "a", "t", "c", "h" >>, Some(<< "x" >>), << << "a", "a" >> >>),
      FileCli(<< "p", "u", "t" >>, Some(<< "x" >>), << << "A", ":", "a" >> >>) }

FilePool ==
    { NoFile, BadJsonFile }
    \cup { ObjectFile(u, m, None, Some(h)) :
             u \in {None, Some(GoodUrl)},
             m \in {None, Some(DefaultMethod), Some(<< "p", "a", "t", "c", "h" >>)},
             h \in HeaderLists }
    \cup { ObjectFile(Some(GoodUrl), Some(m), b, None) :
             m \in MethodPool,
             b \in {None, Some(JNull)} \cup {Some(v) : v \in JsonPool} }
    \cup { ObjectFile(Some(u), Some(m), None, None) :
             u \in {GoodUrl, BadUrl}, m \in AllMethods }

\* invocations naming both input sources, or neither
UsageCliPool ==
    { [file |-> f, host |-> h, method |-> m, body |-> None, header |-> << >>] :
        f \in {None, Some(FilePath)}, h \in {None, Some(GoodUrl)},
        m \in MethodPool }

StatusCodes == {200, 404}

\* Display of reqwest::StatusCode: the code and its canonical reason
StatusDisplay(code) ==
    IF code = 200 THEN << "200", " ", "OK" >> ELSE << "404", " ", "Not Found" >>

\* response bodies as text() returns them: JSON, plain text, empty, and text
\* holding U+FFFD where the bytes were not valid UTF-8
ResponseBodies ==
    { Serialize(JObj(<< "a" >>, JNum(<< "1" >>))), << "h", "i" >>, << >>,
      << "a", "U+FFFD" >> }

(* ------------------------------- state --------------------------------- *)
VARIABLES
    cli,          \* the command line: file, host, method, body, header
    file,         \* what FilePath holds
    pc,           \* position of main()
    url, method, body_opt, headers_vec,   \* the resolved request parameters
    idx,          \* position of the header loop in headers_vec
    kv,           \* the (k.trim(), v.trim()) of each iteration that split
    headers,      \* the HeaderMap, a set of (name, value) pairs
    request,      \* Option: the built request
    sent,         \* the requests handed to client.execute, in order
    response,     \* Option: the received response (its status)
    body,         \* the response text
    stdout,       \* the lines printed with println!
    stderr,       \* the lines printed to standard error
    exit,         \* Option: the exit status of the process
    err,          \* the error or early return that ended the run, "" if none
    io            \* the I/O performed so far, in order

vars ==
    << cli, file, pc, url, method, body_opt, headers_vec, idx, kv, headers,
       request, sent, response, body, stdout, stderr, exit, err, io >>

resolved == << url, method, body_opt, headers_vec >>

Inputs ==
    \/ /\ cli \in {FlagCli(u, m, None, h) :
                     u \in {GoodUrl, BadUrl}, m \in MethodPool,
                     h \in HeaderLists}
       /\ file = NoFile
    \/ /\ cli \in {FlagCli(GoodUrl, m, b, << >>) :
                     m \in MethodPool, b \in BodyStrings}
       /\ file = NoFile
    \/ /\ cli \in {FlagCli(GoodUrl, DefaultMethod, None, h) : h \in SingleHeaders}
       /\ file = NoFile
    \/ /\ cli \in {FlagCli(GoodUrl, m, None, << >>) : m \in AllMethods}
       /\ file = NoFile
    \/ /\ cli \in FileCliPool
       /\ file \in FilePool
    \/ /\ cli \in UsageCliPool
       /\ file = ObjectFile(Some(GoodUrl), Some(DefaultMethod), None, None)

Init ==
    /\ Inputs
    /\ pc = "start"
    /\ url = ""
    /\ method = << >>
    /\ body_opt = None
    /\ headers_vec = << >>
    /\ idx = 1
    /\ kv = << >>
    /\ headers = {}
    /\ request = None
    /\ sent = << >>
    /\ response = None
    /\ body = << >>
    /\ stdout = << >>
    /\ stderr = << >>
    /\ exit = None
    /\ err = ""
    /\ io = << >>

(* ------------------------------ endings -------------------------------- *)
\* the exit status of main() returning Err through `?`
ErrExit == Some(1)

\* the exit status of main() returning Ok(())
OkExit == Some(0)

\* the exit status of clap's error on a bad command line
UsageExit == Some(2)

\* `?` on an Err: main returns it, the runtime prints it and exits
Propagate(kind) ==
    /\ pc' = "done"
    /\ err' = kind
    /\ stderr' = Append(stderr, << "Error: ", kind >>)
    /\ exit' = ErrExit

\* a buggy early return that reports the validation failure as an error
ReturnEarlyAsError(kind, message) ==
    /\ pc' = "done"
    /\ err' = kind
    /\ stderr' = Append(stderr, message)
    /\ exit' = ErrExit

\* eprintln!(message); return Ok(())
ReturnEarly(kind, message) ==
    /\ pc' = "done"
    /\ err' = kind
    /\ stderr' = Append(stderr, message)
    /\ exit' = OkExit

(* --------------------------- argument parsing -------------------------- *)
\* a group that is required but lets both members through (multiple(true))
GroupAcceptsMultiple(f, h) == IsSome(f) \/ IsSome(h)

\* ArgGroup "input" over file and host: required, and not multiple
GroupAccepts(f, h) ==
    /\ IsSome(f) \/ IsSome(h)
    /\ ~(IsSome(f) /\ IsSome(h))

\* Cli::parse(): exits with a usage error unless the group is satisfied
ParseArgs ==
    /\ pc = "start"
    /\ IF GroupAccepts(cli.file, cli.host)
       THEN /\ pc' = "resolve"
            /\ UNCHANGED << err, stderr, exit >>
       ELSE /\ pc' = "done"
            /\ err' = "Usage"
            /\ stderr' = Append(stderr, << "error: ", "usage" >>)
            /\ exit' = UsageExit
    /\ UNCHANGED << cli, file, url, method, body_opt, headers_vec, idx, kv,
                    headers, request, sent, response, body, stdout, io >>

(* --------------------------- input resolution -------------------------- *)
\* std::fs::read_to_string(file_path)?
ReadFile ==
    /\ pc = "resolve"
    /\ IsSome(cli.file)
    /\ io' = Append(io, "read_file")
    /\ IF file.kind = "unreadable"
       THEN Propagate("FileRead")
       ELSE /\ pc' = "deserialize"
            /\ UNCHANGED << err, stderr, exit >>
    /\ UNCHANGED << cli, file, url, method, body_opt, headers_vec, idx, kv,
                    headers, request, sent, response, body, stdout >>

\* a buggy deserializer in which a missing method defaults to GET
DeserializeDefaultMethod(doc) ==
    IF doc.kind # "object" \/ ~IsSome(doc.url)
    THEN None
    ELSE Some([url |-> doc.url[1],
               method |-> UnwrapOrDefault(doc.method, DefaultMethod),
               body |-> IF doc.body = Some(JNull) THEN None ELSE doc.body,
               headers |-> doc.headers])

\* serde_json::from_str::<RequestFile>: url and method are required, body
\* and headers are Options, and a JSON null is None for an Option
DeserializeRequestFile(doc) ==
    IF doc.kind # "object" \/ ~IsSome(doc.url) \/ ~IsSome(doc.method)
    THEN None
    ELSE Some([url |-> doc.url[1],
               method |-> doc.method[1],
               body |-> IF doc.body = Some(JNull) THEN None ELSE doc.body,
               headers |-> doc.headers])

\* a buggy file branch in which --method and --header override the file
ResolveFileWithFlags(parsed, c) ==
    << parsed.url,
       ToUppercase(IF c.method # DefaultMethod THEN c.method ELSE parsed.method),
       IF IsSome(parsed.body) THEN Some(Serialize(parsed.body[1])) ELSE None,
       UnwrapOrDefault(parsed.headers, << >>) \o c.header >>

\* the tuple of the file branch
ResolveFile(parsed, c) ==
    << parsed.url,
       ToUppercase(parsed.method),
       IF IsSome(parsed.body) THEN Some(Serialize(parsed.body[1])) ELSE None,
       UnwrapOrDefault(parsed.headers, << >>) >>

\* the tuple of the flag branch; host is Some whenever it is evaluated
ResolveFlags(c) ==
    << c.host[1], ToUppercase(c.method), c.body, c.header >>

\* let (url, method, body_opt, headers_vec) = t
BindResolved(t) ==
    /\ url' = t[1]
    /\ method' = t[2]
    /\ body_opt' = t[3]
    /\ headers_vec' = t[4]

\* serde_json::from_str(&file_content)? and the file branch's tuple
ParseRequestFile ==
    /\ pc = "deserialize"
    /\ LET parsed == DeserializeRequestFile(file)
       IN  IF ~IsSome(parsed)
           THEN /\ Propagate("JsonParse")
                /\ UNCHANGED << url, method, body_opt, headers_vec >>
           ELSE /\ BindResolved(ResolveFile(parsed[1], cli))
                /\ pc' = "headers"
                /\ UNCHANGED << err, stderr, exit >>
    /\ UNCHANGED << cli, file, idx, kv, headers, request, sent, response,
                    body, stdout, io >>

\* the else branch: cli.host.expect(..) panics on None
UseFlags ==
    /\ pc = "resolve"
    /\ ~IsSome(cli.file)
    /\ IF ~IsSome(cli.host)
       THEN /\ pc' = "done"
            /\ err' = "Panic"
            /\ stderr' = Append(stderr, << "panicked: ", "host is required" >>)
            /\ exit' = Some(101)
            /\ UNCHANGED << url, method, body_opt, headers_vec >>
       ELSE /\ BindResolved(ResolveFlags(cli))
            /\ pc' = "headers"
            /\ UNCHANGED << err, stderr, exit >>
    /\ UNCHANGED << cli, file, idx, kv, headers, request, sent, response,
                    body, stdout, io >>

(* ----------------------------- header loop ----------------------------- *)
\* one iteration of `for h in headers_vec`
ParseHeader ==
    /\ pc = "headers"
    /\ idx <= Len(headers_vec)
    /\ LET h == headers_vec[idx]
           split == SplitOnce(h)
       IN  IF ~IsSome(split)
           THEN /\ ReturnEarly("InvalidHeaderFormat",
                               << "Invalid header format: " >> \o h)
                /\ UNCHANGED << idx, kv, headers >>
           ELSE LET k == Trim(split[1][1])
                    v == Trim(split[1][2])
                    name == HeaderNameFromStr(k)
                    value == HeaderValueFromStr(v)
                IN  /\ kv' = Append(kv, << k, v >>)
                    /\ IF ~IsSome(name)
                       THEN /\ Propagate("InvalidHeaderName")
                            /\ UNCHANGED << idx, headers >>
                       ELSE IF ~IsSome(value)
                       THEN /\ Propagate("InvalidHeaderValue")
                            /\ UNCHANGED << idx, headers >>
                       ELSE /\ headers' = HeaderMapInsert(headers, name[1],
                                                          value[1])
                            /\ idx' = idx + 1
                            /\ UNCHANGED << pc, err, stderr, exit >>
    /\ UNCHANGED << cli, file, url, method, body_opt, headers_vec, request,
                    sent, response, body, stdout, io >>

(* ------------------------- dispatch and build -------------------------- *)
\* a dispatcher that also lets PATCH through
IsSupportedOrPatch(m) ==
    m \in { << "G", "E", "T" >>, << "P", "O", "S", "T" >>, << "P", "U", "T" >>,
            << "D", "E", "L", "E", "T", "E" >>, << "P", "A", "T", "C", "H" >> }

\* the arms of `match method.as_str()` that build a request
IsSupported(m) ==
    m \in { << "G", "E", "T" >>, << "P", "O", "S", "T" >>, << "P", "U", "T" >>,
            << "D", "E", "L", "E", "T", "E" >> }

\* request_builder.headers(headers).body(body_opt.unwrap_or_default())
BuiltRequest(m, u, hs, b) ==
    [method |-> m, url |-> u, headers |-> hs,
     body |-> UnwrapOrDefault(b, << >>)]

\* the match on the method, then .headers(..).body(..).build()?
BuildRequest ==
    /\ pc = "headers"
    /\ idx > Len(headers_vec)
    /\ IF ~IsSupported(method)
       THEN /\ ReturnEarly("UnsupportedMethod",
                           << "Unsupported method: " >> \o method)
            /\ UNCHANGED request
       ELSE IF ~UrlParses(url)
       THEN /\ Propagate("Build")
            /\ UNCHANGED request
       ELSE /\ request' = Some(BuiltRequest(method, url, headers, body_opt))
            /\ pc' = "execute"
            /\ UNCHANGED << err, stderr, exit >>
    /\ UNCHANGED << cli, file, url, method, body_opt, headers_vec, idx, kv,
                    headers, sent, response, body, stdout, io >>

(* ----------------------------- network call ----------------------------- *)
\* client.execute(request): the request goes out and main() suspends
ExecuteSend ==
    /\ pc = "execute"
    /\ sent' = Append(sent, request[1])
    /\ io' = Append(io, "network")
    /\ pc' = "await_response"
    /\ UNCHANGED << cli, file, url, method, body_opt, headers_vec, idx, kv,
                    headers, request, response, body, stdout, stderr, exit,
                    err >>

\* a buggy executor that sends the request again after a transport error
ExecuteReturnRetry ==
    /\ pc = "await_response"
    /\ \/ /\ Len(sent) < 2
          /\ pc' = "execute"
          /\ UNCHANGED << response, err, stderr, exit >>
       \/ \E code \in StatusCodes :
            /\ response' = Some([status |-> code])
            /\ pc' = "read_body"
            /\ UNCHANGED << err, stderr, exit >>
    /\ UNCHANGED << cli, file, url, method, body_opt, headers_vec, idx, kv,
                    headers, request, sent, body, stdout, io >>

\* .await? on execute: a transport error, or a response with its status
ExecuteReturn ==
    /\ pc = "await_response"
    /\ \/ /\ Propagate("Network")
          /\ UNCHANGED response
       \/ \E code \in StatusCodes :
            /\ response' = Some([status |-> code])
            /\ pc' = "read_body"
            /\ UNCHANGED << err, stderr, exit >>
    /\ UNCHANGED << cli, file, url, method, body_opt, headers_vec, idx, kv,
                    headers, request, sent, body, stdout, io >>

\* response.status(), then response.text().await?: the read of the body
\* fails, or yields the text (bytes that are no UTF-8 decode to U+FFFD)
ReadBody ==
    /\ pc = "read_body"
    /\ \/ /\ Propagate("ResponseRead")
          /\ UNCHANGED body
       \/ \E text \in ResponseBodies :
            /\ body' = text
            /\ pc' = "render"
            /\ UNCHANGED << err, stderr, exit >>
    /\ UNCHANGED << cli, file, url, method, body_opt, headers_vec, idx, kv,
                    headers, request, sent, response, stdout, io >>

(* ------------------------------ rendering ------------------------------ *)
StatusLine(code) == << "Status: " >> \o StatusDisplay(code)

BodyBlock(text) == << "Body:", "\n" >> \o text

\* the text under "Body:": pretty-printed when the body parses as JSON
RenderedBody(text) ==
    LET json == ParseJson(text)
    IN  IF IsSome(json) THEN PrettySerialize(json[1]) ELSE text

\* a buggy renderer that stops with an error when the body is no JSON
RenderResponseStrict ==
    /\ pc = "render"
    /\ IF IsSome(ParseJson(body))
       THEN /\ stdout' = stdout \o << StatusLine(response[1].status),
                                     BodyBlock(RenderedBody(body)) >>
            /\ pc' = "done"
            /\ exit' = OkExit
            /\ UNCHANGED << err, stderr >>
       ELSE /\ Propagate("Render")
            /\ UNCHANGED stdout
    /\ UNCHANGED << cli, file, url, method, body_opt, headers_vec, idx, kv,
                    headers, request, sent, response, body, io >>

\* println!("Status: {}", status), the Body block, Ok(())
RenderResponse ==
    /\ pc = "render"
    /\ stdout' = stdout \o << StatusLine(response[1].status),
                              BodyBlock(RenderedBody(body)) >>
    /\ pc' = "done"
    /\ exit' = OkExit
    /\ UNCHANGED << cli, file, url, method, body_opt, headers_vec, idx, kv,
                    headers, request, sent, response, body, stderr, err, io >>

(* --------------------------- specification ----------------------------- *)
Next ==
    \/ ParseArgs
    \/ ReadFile
    \/ ParseRequestFile
    \/ UseFlags
    \/ ParseHeader
    \/ BuildRequest
    \/ ExecuteSend
    \/ ExecuteReturn
    \/ ReadBody
    \/ RenderResponse

Spec == Init /\ [][Next]_vars

\* main() runs to its end, and the network call and the body read return
FairSpec == Spec /\ WF_vars(Next)

(* ========================= checked properties ========================== *)
\* the header strings and the method string of the selected input source
InputHeaders ==
    IF IsSome(cli.file) THEN UnwrapOrDefault(file.headers, << >>) ELSE cli.header

InputMethod ==
    IF IsSome(cli.file) THEN UnwrapOrDefault(file.method, << >>) ELSE cli.method

HasColon(h) == \E i \in 1..Len(h) : h[i] = ":"

FourMethods ==
    { << "G", "E", "T" >>, << "P", "O", "S", "T" >>, << "P", "U", "T" >>,
      << "D", "E", "L", "E", "T", "E" >> }

\* m is s with every character upper-cased
IsUpperOf(m, s) ==
    /\ Len(m) = Len(s)
    /\ \A i \in 1..Len(s) : m[i] = UpperChar(s[i])

\* the input was resolved into (url, method, body_opt, headers_vec)
InputResolved ==
    \/ pc \in {"headers", "execute", "await_response", "read_body", "render"}
    \/ pc = "done" /\ err \notin {"Usage", "Panic", "FileRead", "JsonParse"}

NoStatusLine == \A i \in 1..Len(stdout) : stdout[i][1] # "Status: "

\* C1: whenever a header string of the selected input source has no colon
\* (at any position of the list), or the upper-cased method of the selected
\* source is none of GET, POST, PUT, DELETE, no request is ever handed to
\* the network.
C1_NoRequestOnInvalidInput ==
    ( \/ \E i \in 1..Len(InputHeaders) : ~HasColon(InputHeaders[i])
      \/ \A m \in FourMethods : ~IsUpperOf(m, InputMethod) )
    => /\ sent = << >>
       /\ \A i \in 1..Len(io) : io[i] # "network"
       /\ pc \notin {"await_response", "read_body", "render"}

\* the run stopped at a colon-less header that follows a well-formed one
C1_Witness ==
    /\ pc = "done"
    /\ err = "InvalidHeaderFormat"
    /\ idx = 2
    /\ HasColon(InputHeaders[1])
    /\ ~HasColon(InputHeaders[2])
    /\ sent = << >>

\* C2: once arguments are parsed, an invocation naming both --file and
\* --host, or neither, has been rejected as a usage error with a failure
\* status, with no file read and no network activity; and every run that
\* got past parsing has exactly one of the two.
C2_ExactlyOneInputSource ==
    pc # "start" =>
        /\ (IsSome(cli.file) = IsSome(cli.host)) =>
              /\ pc = "done"
              /\ err = "Usage"
              /\ exit \notin {None, Some(0)}
              /\ io = << >>
              /\ sent = << >>
        /\ err = "Usage" => IsSome(cli.file) = IsSome(cli.host)
        /\ err # "Usage" => IsSome(cli.file) # IsSome(cli.host)

\* both sources were named, the file was there to read, and the run was
\* rejected before touching it
C2_Witness ==
    /\ pc = "done"
    /\ err = "Usage"
    /\ IsSome(cli.file)
    /\ IsSome(cli.host)
    /\ file.kind = "object"
    /\ io = << >>

\* C3: a run that stopped on a validation failure (colon-less header,
\* unsupported method) wrote a message to stderr and exits with status 0; a
\* run that stopped on an unrecoverable error exits with a failure status;
\* neither printed a Status line.
C3_ExitStatusByFailureKind ==
    pc = "done" =>
        /\ err \in {"InvalidHeaderFormat", "UnsupportedMethod"} =>
              /\ stderr # << >>
              /\ exit = Some(0)
              /\ NoStatusLine
        /\ err \in {"FileRead", "JsonParse", "InvalidHeaderName",
                    "InvalidHeaderValue", "Build", "Network", "ResponseRead"} =>
              /\ exit \notin {None, Some(0)}
              /\ NoStatusLine

\* an unsupported method ended the run with a message and status 0
C3_Witness ==
    /\ pc = "done"
    /\ err = "UnsupportedMethod"
    /\ stderr = << << "Unsupported method: ", "P", "A", "T", "C", "H" >> >>
    /\ exit = Some(0)
    /\ stdout = << >>

\* what a run prints for a response with this status and this body text
IsRendering(out, code, text) ==
    /\ Len(out) = 2
    /\ out[1][1] = "Status: "
    /\ out[1][2] = (IF code = 200 THEN "200" ELSE "404")
    /\ Len(out[2]) >= 2
    /\ out[2][1] = "Body:"
    /\ out[2][2] = "\n"

\* C4 as stated: every finished run that received a response printed the
\* Status line and the Body block and ended without error, whatever reading,
\* decoding or JSON-parsing the body did.
C4_StatusPrintedForEveryResponse ==
    (pc = "done" /\ IsSome(response)) =>
        /\ IsRendering(stdout, response[1].status, body)
        /\ exit = Some(0)
        /\ err = ""

\* C4 amended: every finished run that received a response and read its
\* body printed the Status line and the Body block and ended with status 0,
\* whatever decoding or JSON-parsing the body did; a run whose body read
\* failed printed nothing and ended with a failure status.
C4_StatusPrintedOnceBodyIsRead ==
    (pc = "done" /\ IsSome(response)) =>
        IF err = "ResponseRead"
        THEN stdout = << >> /\ exit \notin {None, Some(0)}
        ELSE /\ IsRendering(stdout, response[1].status, body)
             /\ exit = Some(0)
             /\ err = ""

\* a 404 response whose body is neither UTF-8 nor JSON was rendered
C4_Witness ==
    /\ pc = "done"
    /\ IsSome(response)
    /\ response[1].status = 404
    /\ body = << "a", "U+FFFD" >>
    /\ stdout = << << "Status: ", "404", " ", "Not Found" >>,
                   << "Body:", "\n", "a", "U+FFFD" >> >>
    /\ exit = Some(0)

\* t is s without its leading and trailing whitespace
IsTrimOf(t, s) ==
    \E i \in 0..Len(s) : \E j \in i..Len(s) :
        /\ t = SubSeq(s, i + 1, j)
        /\ \A q \in 1..i : s[q] = " "
        /\ \A q \in (j + 1)..Len(s) : s[q] = " "
        /\ t # << >> => (t[1] # " " /\ t[Len(t)] # " ")

\* C5: every header string the loop has handled contains a colon, and its
\* name is the text before the first colon, trimmed, and its value all the
\* text after the first colon (later colons included), trimmed; a string
\* with a colon is never treated as colon-less.
C5_SplitOnFirstColonAndTrim ==
    /\ Len(kv) <= Len(headers_vec)
    /\ \A i \in 1..Len(kv) :
          LET h == headers_vec[i]
          IN  \E p \in 1..Len(h) :
                 /\ h[p] = ":"
                 /\ \A q \in 1..(p - 1) : h[q] # ":"
                 /\ IsTrimOf(kv[i][1], SubSeq(h, 1, p - 1))
                 /\ IsTrimOf(kv[i][2], SubSeq(h, p + 1, Len(h)))
    /\ pc \in {"execute", "await_response", "read_body", "render"} =>
          Len(kv) = Len(headers_vec)
    /\ err = "InvalidHeaderFormat" =>
          (Len(kv) = idx - 1 /\ ~HasColon(headers_vec[idx]))
    /\ err \in {"InvalidHeaderName", "InvalidHeaderValue"} => Len(kv) = idx

\* " a : a:a " was parsed as name "a" and value "a:a"
C5_Witness ==
    /\ Len(kv) >= 1
    /\ headers_vec[1] = << " ", "a", " ", ":", " ", "a", ":", "a", " " >>
    /\ kv[1] = << << "a" >>, << "a", ":", "a" >> >>
    /\ << << "a" >>, << "a", ":", "a" >> >> \in headers

\* C6: in both input modes the resolved method is the input method string
\* upper-cased, so every casing of get, post, put, delete is dispatched as
\* GET, POST, PUT, DELETE and never reported as unsupported.
C6_MethodIsUpperCased ==
    InputResolved =>
        /\ IsUpperOf(method, InputMethod)
        /\ (\E m \in FourMethods : IsUpperOf(m, InputMethod)) =>
              /\ err # "UnsupportedMethod"
              /\ method \in FourMethods
              /\ IsSome(request) => request[1].method = method

\* the request file's "pOsT" went out as POST
C6_Witness ==
    /\ IsSome(cli.file)
    /\ file.method = Some(<< "p", "O", "s", "T" >>)
    /\ Len(sent) = 1
    /\ sent[1].method = << "P", "O", "S", "T" >>

\* C7 as stated: a sent request carries every (name, value) pair parsed from
\* the header strings, also when several strings have the same name, and
\* its body is the supplied body (in file mode the compact serialization of
\* the JSON value), or the empty string when none was supplied.
C7_RequestCarriesEveryHeader ==
    \A r \in 1..Len(sent) :
        /\ \A i \in 1..Len(kv) :
              \E p \in sent[r].headers :
                 /\ IsUpperOf(ToUppercase(p[1]), kv[i][1])
                 /\ p[2] = kv[i][2]
        /\ sent[r].body =
              IF IsSome(cli.file)
              THEN IF IsSome(file.body) /\ file.body # Some(JNull)
                   THEN Serialize(file.body[1])
                   ELSE << >>
              ELSE IF IsSome(cli.body) THEN cli.body[1] ELSE << >>

\* C8 as stated: a usage error, a missing required field url/method
\* included, is detected before any I/O; a network or response-read error
\* occurs only after the request was dispatched.
C8_UsageErrorBeforeAnyIO ==
    /\ ( \/ err = "Usage"
         \/ /\ err # ""
            /\ IsSome(cli.file)
            /\ file.kind = "object"
            /\ (~IsSome(file.url) \/ ~IsSome(file.method)) )
       => (io = << >> /\ sent = << >>)
    /\ err \in {"Network", "ResponseRead"} => Len(sent) = 1

\* C8 amended: selecting neither or both input sources is detected before
\* any I/O; a required field url/method missing from the request file is
\* detected after the file is read and before any network activity, and
\* ends the run; a network or response-read error occurs only after the
\* request was dispatched.
C8_ErrorKindsAgainstStages ==
    /\ err = "Usage" => (io = << >> /\ sent = << >>)
    /\ ( /\ pc \notin {"start", "resolve", "deserialize"}
         /\ err # "Usage"
         /\ IsSome(cli.file)
         /\ file.kind = "object"
         /\ (~IsSome(file.url) \/ ~IsSome(file.method)) )
       => (pc = "done" /\ err = "JsonParse" /\ io = << "read_file" >>
           /\ sent = << >>)
    /\ err \in {"Network", "ResponseRead"} =>
          (Len(sent) = 1 /\ io[Len(io)] = "network")

\* a request file without a method was rejected after it was read
C8_Witness ==
    /\ pc = "done"
    /\ err = "JsonParse"
    /\ file.kind = "object"
    /\ IsSome(file.url)
    /\ ~IsSome(file.method)
    /\ io = << "read_file" >>

\* the stage a position of main() belongs to: resolve, validate, send,
\* render, and the end of the run
StageOf(p) ==
    CASE p \in {"start", "resolve", "deserialize"} -> 1
      [] p = "headers" -> 2
      [] p \in {"execute", "await_response"} -> 3
      [] p \in {"read_body", "render"} -> 4
      [] p = "done" -> 5

\* C9: the stages resolve, validate, send, render are passed in that order
\* and none is entered again, at most one request is sent, an error ends
\* the run (nothing runs after it, nothing is retried), and every run ends
\* when the network call and the body read return.
C9_LinearPipeline ==
    /\ [][ /\ StageOf(pc') >= StageOf(pc)
           /\ pc # "done"
           /\ Len(sent') <= 1
           /\ Len(sent') >= Len(sent)
           /\ err' # "" => pc' = "done" ]_vars
    /\ <>(pc = "done")

\* a run whose single request failed on the network, and that ended there
C9_Witness ==
    /\ pc = "done"
    /\ err = "Network"
    /\ Len(sent) = 1
    /\ stdout = << >>

\* C10: with --file, the resolved url, method, body and headers are those
\* of the file whatever --method, --body and --header say, and those flags
\* do not make the invocation a usage error.
C10_FileAloneDeterminesRequest ==
    IsSome(cli.file) =>
        /\ ~IsSome(cli.host) => err # "Usage"
        /\ InputResolved =>
              /\ url = file.url[1]
              /\ IsUpperOf(method, file.method[1])
              /\ body_opt = (IF IsSome(file.body) /\ file.body # Some(JNull)
                             THEN Some(Serialize(file.body[1]))
                             ELSE None)
              /\ headers_vec = UnwrapOrDefault(file.headers, << >>)

\* --file with --method put, --body x and --header "A:a": the request that
\* went out is the file's GET, without body and without headers
C10_Witness ==
    /\ IsSome(cli.file)
    /\ cli.method = << "p", "u", "t" >>
    /\ cli.body = Some(<< "x" >>)
    /\ cli.header = << << "A", ":", "a" >> >>
    /\ Len(sent) = 1
    /\ sent[1].method = << "G", "E", "T" >>
    /\ sent[1].body = << >>
    /\ sent[1].headers = {}

====
